---- MODULE Spec2Model ----
(***************************************************************************)
(* Model of slog-mozlog-json: the MozLogJson drain (src/src/drain.rs) and  *)
(* its severity tables (src/src/util.rs).                                  *)
(*                                                                         *)
(* Text is modelled byte by byte: a text is a sequence of one-character    *)
(* strings, so that the placeholder splice of MozLogJson::log is the       *)
(* textual replacement the code performs and not an operation on a tree.   *)
(***************************************************************************)
EXTENDS Integers, Sequences, FiniteSets, TLC

\* ------------------------------------------------------------------ bounds

\* Log calls made on one encoder.
MaxCalls == 2
\* add_key_value calls made on one builder.
MaxCustom == 1
\* Reading of the wall clock when the first Timestamp is evaluated.
ClockStart == 9
\* The sink fails on its Nth write for one N in 1..MaxFailAt, or never.
MaxFailAt == 3

\* ------------------------------------------------------------- characters

QUOTE == "\""
BSLASH == "\\"
NL == "\n"
SP == " "

K_Logger == <<"L", "o", "g", "g", "e", "r">>
K_Type == <<"T", "y", "p", "e">>
K_Hostname == <<"H", "o", "s", "t", "n", "a", "m", "e">>
K_Timestamp == <<"T", "i", "m", "e", "s", "t", "a", "m", "p">>
K_Pid == <<"P", "i", "d">>
K_Severity == <<"S", "e", "v", "e", "r", "i", "t", "y">>
K_severity == <<"s", "e", "v", "e", "r", "i", "t", "y">>
K_Fields == <<"F", "i", "e", "l", "d", "s">>
K_msg == <<"m", "s", "g">>

\* The sentinel of log_placeholder_impl, without its quotes.
PLACEHOLDER ==
    <<"0", "0", "P", "L", "A", "C", "E", "H", "O", "L", "D", "E", "R", "0", "0">>

\* The pattern MozLogJson::log searches for: the sentinel with its quotes.
QuotedPlaceholder == <<QUOTE>> \o PLACEHOLDER \o <<QUOTE>>

\* process::id(), read once by build().
Pid == 42

\* ------------------------------------------------------------ slog values

\* A value is <<tag, payload>>:
\*   "str"  a String or &str              (emit_str)
\*   "num"  an unsigned integer           (emit_u64)
\*   "args" a fmt::Arguments, payload the text its rendering appends
\*                                        (emit_arguments)
\*   "ts"   the Timestamp FnValue         (emit_i64)
\*   "sev"  the Severity FnValue          (emit_u8)
\*   "gcp"  the severity FnValue          (emit_u16)
\*   "pid"  the process id, a u32         (emit_u32)
\*   "err"  a value whose serialization returns Err
StrV(s) == <<"str", s>>
NumV(n) == <<"num", n>>
ArgsV(s) == <<"args", s>>
TsV == <<"ts", <<>>>>
SevV == <<"sev", <<>>>>
GcpV == <<"gcp", <<>>>>
PidV(n) == <<"pid", n>>
ErrV == <<"err", <<>>>>

KVPair(k, v) == [k |-> k, v |-> v]

None == <<>>
Some(x) == <<x>>

Levels == {"Critical", "Error", "Warning", "Info", "Debug", "Trace"}

\* ------------------------------------------------------------------- util

level_to_severity(level) ==
    CASE level = "Critical" -> 2
      [] level = "Error" -> 3
      [] level = "Warning" -> 4
      [] level = "Info" -> 6
      [] level \in {"Debug", "Trace"} -> 7

\* A faulty GCP table: Info mapped to NOTICE.
level_to_gcp_severity_notice(level) ==
    CASE level = "Critical" -> 600
      [] level = "Error" -> 500
      [] level = "Warning" -> 400
      [] level = "Info" -> 300
      [] level \in {"Debug", "Trace"} -> 100

level_to_gcp_severity(level) ==
    CASE level = "Critical" -> 600
      [] level = "Error" -> 500
      [] level = "Warning" -> 400
      [] level = "Info" -> 200
      [] level \in {"Debug", "Trace"} -> 100

\* ------------------------------------------------------- the JSON backend

Digit(d) == <<"0", "1", "2", "3", "4", "5", "6", "7", "8", "9">>[d + 1]

RECURSIVE Itoa(_)
\* The decimal text serde_json writes for an integer.
Itoa(n) == IF n < 10 THEN <<Digit(n)>> ELSE Itoa(n \div 10) \o <<Digit(n % 10)>>

EscapeChar(c) ==
    CASE c = QUOTE -> <<BSLASH, QUOTE>>
      [] c = BSLASH -> <<BSLASH, BSLASH>>
      [] c = NL -> <<BSLASH, "n">>
      [] OTHER -> <<c>>

RECURSIVE Escape(_)
Escape(s) == IF s = <<>> THEN <<>> ELSE EscapeChar(Head(s)) \o Escape(Tail(s))

\* serde_json's serialize_str: the escaped text between quotes.
StrText(s) == <<QUOTE>> \o Escape(s) \o <<QUOTE>>

\* The serializer of one pass together with what the pass touches outside it:
\*   out    the bytes written to the pass's Cursor<Vec<u8>>
\*   first  serde_json's State::First: no entry written yet
\*   ok     FALSE once an entry has failed (the ? operators skip the rest)
\*   buf    the calling thread's TL_BUF
\*   clean  every emit_arguments entered in this pass found TL_BUF empty
\*   evals  evaluations of lazy or formatted values so far in this log call
EvalNames == {"Timestamp", "Severity", "msg", "args"}

NoEvals == [n \in EvalNames |-> 0]

NewSer(buf, evals) ==
    [out |-> <<>>, first |-> TRUE, ok |-> TRUE, buf |-> buf, clean |-> TRUE,
     evals |-> evals]

\* SerdeSerializer::start: serialize_map(None) writes the opening brace.
start(st) == [st EXCEPT !.out = @ \o <<"{">>, !.first = TRUE]

\* SerdeSerializer::end: serde_json's end_object.
end(st, pretty) ==
    [st EXCEPT !.out = @ \o (IF pretty /\ ~st.first THEN <<NL>> ELSE <<>>) \o <<"}">>]

\* impl_m!: serialize_entry(key, value) through the compact or the pretty
\* formatter (one level of indentation, two spaces).
impl_m(st, pretty, key, valText) ==
    LET sep == IF pretty
               THEN (IF st.first THEN <<NL>> ELSE <<",", NL>>) \o <<SP, SP>>
               ELSE (IF st.first THEN <<>> ELSE <<",">>)
        colon == IF pretty THEN <<":", SP>> ELSE <<":">>
    IN  [st EXCEPT !.out = @ \o sep \o StrText(key) \o colon \o valText,
                   !.first = FALSE]

emit_str(st, pretty, key, val) == impl_m(st, pretty, key, StrText(val))

emit_u8(st, pretty, key, val) == impl_m(st, pretty, key, Itoa(val))

emit_u16(st, pretty, key, val) == impl_m(st, pretty, key, Itoa(val))

emit_u32(st, pretty, key, val) == impl_m(st, pretty, key, Itoa(val))

emit_u64(st, pretty, key, val) == impl_m(st, pretty, key, Itoa(val))

emit_i64(st, pretty, key, val) == impl_m(st, pretty, key, Itoa(val))

\* A faulty emit_arguments that never clears the scratch buffer.
emit_arguments_noclear(st, pretty, key, val) ==
    LET rendered == st.buf \o val
        res == impl_m(st, pretty, key, StrText(rendered))
    IN  [res EXCEPT !.buf = rendered, !.clean = st.clean /\ st.buf = <<>>]

\* emit_arguments: write_fmt appends the rendering to TL_BUF, the entry is
\* written from the buffer, and the buffer is cleared whatever the result.
emit_arguments(st, pretty, key, val) ==
    LET rendered == st.buf \o val
        res == impl_m(st, pretty, key, StrText(rendered))
    IN  [res EXCEPT !.buf = <<>>, !.clean = st.clean /\ st.buf = <<>>]

Evaluated(st, n) == [st EXCEPT !.evals[n] = @ + 1]

\* kv.serialize(rinfo, &mut serializer)? for one pair: slog's Value impls
\* pick the emit_* method; an FnValue is evaluated here, against the record.
SerializePair(st, pretty, level, now, p) ==
    IF ~st.ok THEN st
    ELSE LET tag == p.v[1]
             val == p.v[2]
         IN  CASE tag = "str" -> emit_str(st, pretty, p.k, val)
               [] tag = "num" -> emit_u64(st, pretty, p.k, val)
               [] tag = "pid" -> emit_u32(st, pretty, p.k, val)
               [] tag = "args" ->
                    emit_arguments(Evaluated(st, "args"), pretty, p.k, val)
               [] tag = "ts" ->
                    emit_i64(Evaluated(st, "Timestamp"), pretty, p.k, now)
               [] tag = "sev" ->
                    emit_u8(Evaluated(st, "Severity"), pretty, p.k,
                            level_to_severity(level))
               [] tag = "gcp" ->
                    emit_u16(Evaluated(st, "Severity"), pretty, p.k,
                             level_to_gcp_severity(level))
               [] tag = "err" -> [st EXCEPT !.ok = FALSE]

RECURSIVE SerializePairs(_, _, _, _, _)
SerializePairs(st, pretty, level, now, ps) ==
    IF ps = <<>> THEN st
    ELSE SerializePairs(SerializePair(st, pretty, level, now, Head(ps)),
                        pretty, level, now, Tail(ps))

Reverse(s) == [i \in 1..Len(s) |-> s[Len(s) + 1 - i]]

\* The pairs of one o!(...) or kv!(...) group, written k1 => v1, ..., kn => vn,
\* in the order its serialize emits them: slog's macro nests each pair around
\* the pairs before it, (kn, (... (k1, ()))), and a tuple serializes its first
\* member first, so the pair written last is emitted first.
OwnedKVSerialize(group) == Reverse(group)

RECURSIVE ValuesSerialize(_)
\* for kv in &self.values { kv.serialize(..)? }: the groups in Vec order.
ValuesSerialize(values) ==
    IF values = <<>> THEN <<>>
    ELSE OwnedKVSerialize(Head(values)) \o ValuesSerialize(Tail(values))

RECURSIVE OwnedKVListSerialize(_)
\* logger_values.serialize: an OwnedKVList is a chain from the group attached
\* last to the root's group, serialized from its head. `list` is in attachment
\* order, the root's group first.
OwnedKVListSerialize(list) ==
    IF list = <<>> THEN <<>>
    ELSE OwnedKVSerialize(list[Len(list)])
           \o OwnedKVListSerialize(SubSeq(list, 1, Len(list) - 1))

\* ------------------------------------------------------------ the two passes

\* log_placeholder_impl: the envelope with the sentinel as the value of Fields.
log_placeholder_impl(values, pretty, level, now, st0) ==
    LET s1 == SerializePairs(start(st0), pretty, level, now, ValuesSerialize(values))
        s2 == SerializePair(s1, pretty, level, now, KVPair(K_Fields, StrV(PLACEHOLDER)))
    IN  IF s2.ok THEN end(s2, pretty) ELSE s2

\* A faulty fields pass: the record's pairs before the logger's.
log_fields_impl_callfirst(pretty, r, now, st0) ==
    LET s1 == SerializePair(Evaluated(start(st0), "msg"), pretty, r.level, now,
                            KVPair(K_msg, StrV(r.msg)))
        s2 == SerializePairs(s1, pretty, r.level, now, OwnedKVSerialize(r.kv))
    IN  SerializePairs(s2, pretty, r.level, now, OwnedKVListSerialize(r.lv))

\* log_fields_impl: msg, the logger's pairs, the record's pairs. The function
\* returns Ok(()) after the last pair: it never calls serializer.end().
log_fields_impl(pretty, r, now, st0) ==
    LET s1 == SerializePair(Evaluated(start(st0), "msg"), pretty, r.level, now,
                            KVPair(K_msg, StrV(r.msg)))
        s2 == SerializePairs(s1, pretty, r.level, now, OwnedKVListSerialize(r.lv))
    IN  SerializePairs(s2, pretty, r.level, now, OwnedKVSerialize(r.kv))

MatchAt(s, pat, i) ==
    i + Len(pat) - 1 <= Len(s) /\ SubSeq(s, i, i + Len(pat) - 1) = pat

RECURSIVE Replace(_, _, _)
\* str::replace: every non-overlapping match of pat in s, left to right,
\* becomes `to`; the text put in is not searched again.
Replace(s, pat, to) ==
    LET hits == {i \in 1..Len(s) : MatchAt(s, pat, i)}
    IN  IF hits = {} THEN s
        ELSE LET i == CHOOSE h \in hits : \A g \in hits : h <= g
             IN  SubSeq(s, 1, i - 1) \o to
                   \o Replace(SubSeq(s, i + Len(pat), Len(s)), pat, to)

\* The splice of MozLogJson::log: replace, then push('}').
SplicePayload(payload, fields) ==
    Replace(payload, QuotedPlaceholder, fields) \o <<"}">>

\* ---------------------------------------------------------------- builder

\* MOZLOG_GCP as the process sees it: unset, or its text.
EnvValues == {"unset", "true", "TRUE"}

\* bool::from_str(&env::var("MOZLOG_GCP").unwrap_or("false")).unwrap_or(false)
GcpFromEnv(e) == e = "true"

\* MozLogJsonBuilder::new
NewBuilder(e) ==
    [newlines |-> TRUE, values |-> <<>>, pretty |-> FALSE, logger_name |-> None,
     msg_type |-> None, hostname |-> None, gcp |-> GcpFromEnv(e)]

OptGroup(opt, key) ==
    IF opt = None THEN <<>> ELSE << <<KVPair(key, StrV(opt[1]))>> >>

\* A faulty build: Hostname pushed before Type.
BuildValues_hostfirst(b) ==
    b.values
      \o OptGroup(b.logger_name, K_Logger)
      \o OptGroup(b.hostname, K_Hostname)
      \o OptGroup(b.msg_type, K_Type)
      \o << <<KVPair(K_Timestamp, TsV), KVPair(K_Pid, PidV(Pid))>> >>
      \o (IF b.gcp THEN << <<KVPair(K_severity, GcpV)>> >>
                   ELSE << <<KVPair(K_Severity, SevV)>> >>)

\* MozLogJsonBuilder::build: the drain's values are the custom groups, then
\* Logger, Type, Hostname when set, then the group o!("Timestamp", "Pid"), then
\* the severity group of the mode.
BuildValues(b) ==
    b.values
      \o OptGroup(b.logger_name, K_Logger)
      \o OptGroup(b.msg_type, K_Type)
      \o OptGroup(b.hostname, K_Hostname)
      \o << <<KVPair(K_Timestamp, TsV), KVPair(K_Pid, PidV(Pid))>> >>
      \o (IF b.gcp THEN << <<KVPair(K_severity, GcpV)>> >>
                   ELSE << <<KVPair(K_Severity, SevV)>> >>)

BuildDrain(b) ==
    [values |-> BuildValues(b), newlines |-> b.newlines, pretty |-> b.pretty]

\* ------------------------------------------------------------------ inputs

P_a1 == KVPair(<<"a">>, NumV(1))
P_bx == KVPair(<<"b">>, ArgsV(<<"x">>))
P_ay == KVPair(<<"a">>, StrV(<<"y", QUOTE>>))
P_ph == KVPair(<<"c">>, StrV(PLACEHOLDER))
P_e == KVPair(<<"e">>, ErrV)
P_app == KVPair(<<"a", "p", "p">>, StrV(<<"v">>))

N_svc == <<"s", "v", "c">>
N_type == <<"t">>
N_host == <<"h">>

\* A log call's arguments: the Record (level, msg, kv in call order) and the
\* logger's OwnedKVList (lv, its groups in attachment order).
Rec(level, msg, lv, kv) == [level |-> level, msg |-> msg, lv |-> lv, kv |-> kv]

NoRec == Rec("Info", <<>>, <<>>, <<>>)

LoggerLists == {<<>>, << <<P_a1>>, <<P_bx, P_ph>> >>}

CallLists == {<<>>, <<P_ay, P_bx>>, <<P_e, P_bx>>}

MainRecords == {Rec("Info", <<"m">>, lv, kv) : lv \in LoggerLists, kv \in CallLists}

LevelRecords == {Rec(l, <<"m">>, <<>>, <<>>) : l \in Levels}

BuildRecords == {Rec("Info", <<"m">>, <<>>, <<P_a1>>)}

SharedRecords == {Rec("Info", <<"m">>, <<>>, <<>>), Rec("Error", <<"n">>, <<>>, <<P_bx>>)}

CustomGroups == {<<P_app>>, <<P_e>>}

\* Bytes a failing write_all may have put into the sink before the error.
PartialWrites == {0, 1}

Threads == {1, 2}

\* -------------------------------------------------------------------- state

VARIABLES
    phase,        \* "unborn", "builder" (a MozLogJsonBuilder exists), "built"
    env,          \* MOZLOG_GCP
    builder,      \* the MozLogJsonBuilder's fields
    gcpCalled,    \* enable_gcp has been called on the builder
    drain,        \* the MozLogJson's values, newlines, pretty
    ioBorrow,     \* the borrow flag of drain.io: 0 unused, -1 mutably borrowed
    sink,         \* what the W behind drain.io has received, write by write
    nwrites,      \* write_all calls the sink has seen
    failAt,       \* the sink fails on write number failAt (0: never)
    wrapped,      \* the drain is shared as Mutex<MozLogJson>, as in the crate docs
    mutex,        \* the thread holding that Mutex, 0 when free
    threads,      \* the threads that log through the drain
    pc,           \* each thread's position in MozLogJson::log
    rec,          \* each thread's current call arguments
    payload,      \* each thread's local `payload`
    fields,       \* each thread's local `fields`
    res,          \* the result of each thread's last log call
    TL_BUF,       \* each thread's scratch buffer
    evals,        \* evaluations of lazy values in each thread's current call
    clock,        \* the wall clock: every reading advances it
    calls,        \* log calls started
    sinkAtEntry,  \* the sink when each thread's current call began
    wr,           \* write_all calls made by each thread's current call
    ev,           \* the number of each thread's current call
    tlEntry       \* every emit_arguments a thread entered found TL_BUF empty

vars ==
    <<phase, env, builder, gcpCalled, drain, ioBorrow, sink, nwrites, failAt,
      wrapped, mutex, threads, pc, rec, payload, fields, res, TL_BUF, evals,
      clock, calls, sinkAtEntry, wr, ev, tlEntry>>

builderVars == <<phase, env, builder, gcpCalled, drain>>

setupVars == <<failAt, wrapped, threads>>

NoDrain == [values |-> <<>>, newlines |-> TRUE, pretty |-> FALSE]

\* One write_all that reached the sink: the call it belongs to and its bytes.
Chunk(e, bytes) == [ev |-> e, bytes |-> bytes]

ThreadInit ==
    /\ ioBorrow = 0
    /\ sink = <<>>
    /\ nwrites = 0
    /\ mutex = 0
    /\ pc = [t \in Threads |-> "idle"]
    /\ rec = [t \in Threads |-> NoRec]
    /\ payload = [t \in Threads |-> <<>>]
    /\ fields = [t \in Threads |-> <<>>]
    /\ res = [t \in Threads |-> "none"]
    /\ TL_BUF = [t \in Threads |-> <<>>]
    /\ evals = [t \in Threads |-> NoEvals]
    /\ clock = ClockStart
    /\ calls = 0
    /\ sinkAtEntry = [t \in Threads |-> <<>>]
    /\ wr = [t \in Threads |-> 0]
    /\ ev = [t \in Threads |-> 0]
    /\ tlEntry = [t \in Threads |-> TRUE]

\* An encoder already built from one of the configurations `bs`.
InitBuilt(bs) ==
    /\ phase = "built"
    /\ env = "unset"
    /\ builder \in bs
    /\ gcpCalled = FALSE
    /\ drain = BuildDrain(builder)
    /\ ThreadInit

MainBuilders ==
    {[NewBuilder("unset") EXCEPT !.pretty = p, !.newlines = n, !.values = c,
                                 !.logger_name = Some(N_svc)] :
        p \in BOOLEAN, n \in BOOLEAN, c \in {<<>>, << <<P_e>> >>}}

\* One thread logging through an encoder it owns, to a sink that may fail.
Init ==
    /\ InitBuilt(MainBuilders)
    /\ failAt \in 0..MaxFailAt
    /\ wrapped = FALSE
    /\ threads = {1}

\* ------------------------------------------------------- MozLogJson::log

threadLocals == <<rec, payload, fields, TL_BUF, evals, sinkAtEntry, wr, ev, tlEntry>>

\* A return before borrow_mut: the ? of pass 1 or pass 2.
ReturnEarly(t, result) ==
    /\ pc' = [pc EXCEPT ![t] = "idle"]
    /\ res' = [res EXCEPT ![t] = result]
    /\ mutex' = IF mutex = t THEN 0 ELSE mutex
    /\ UNCHANGED <<ioBorrow, sink, nwrites>>

\* A return while `io` is alive: the RefMut is dropped, which adds one to the
\* borrow flag, and the caller's MutexGuard, if any, is released.
ReturnDrop(t, result) ==
    /\ pc' = [pc EXCEPT ![t] = "idle"]
    /\ res' = [res EXCEPT ![t] = result]
    /\ ioBorrow' = ioBorrow + 1
    /\ mutex' = IF mutex = t THEN 0 ELSE mutex

\* A faulty lock that admits a thread while another holds it.
MutexLock_nonexclusive(t) ==
    /\ phase = "built"
    /\ wrapped
    /\ pc[t] = "idle"
    /\ calls < MaxCalls
    /\ mutex' = t
    /\ pc' = [pc EXCEPT ![t] = "locked"]
    /\ UNCHANGED <<builderVars, setupVars, ioBorrow, sink, nwrites, res, clock,
                   calls, threadLocals>>

\* slog's Drain for Mutex<D>: lock, then log on the guarded drain.
MutexLock(t) ==
    /\ phase = "built"
    /\ wrapped
    /\ pc[t] = "idle"
    /\ calls < MaxCalls
    /\ mutex = 0
    /\ mutex' = t
    /\ pc' = [pc EXCEPT ![t] = "locked"]
    /\ UNCHANGED <<builderVars, setupVars, ioBorrow, sink, nwrites, res, clock,
                   calls, threadLocals>>

\* Entry of log(rinfo, logger_values).
Begin(t, r) ==
    /\ phase = "built"
    /\ pc[t] = IF wrapped THEN "locked" ELSE "idle"
    /\ calls < MaxCalls
    /\ calls' = calls + 1
    /\ pc' = [pc EXCEPT ![t] = "pass1"]
    /\ rec' = [rec EXCEPT ![t] = r]
    /\ res' = [res EXCEPT ![t] = "running"]
    /\ payload' = [payload EXCEPT ![t] = <<>>]
    /\ fields' = [fields EXCEPT ![t] = <<>>]
    /\ evals' = [evals EXCEPT ![t] = NoEvals]
    /\ sinkAtEntry' = [sinkAtEntry EXCEPT ![t] = sink]
    /\ wr' = [wr EXCEPT ![t] = 0]
    /\ ev' = [ev EXCEPT ![t] = calls + 1]
    /\ UNCHANGED <<builderVars, setupVars, ioBorrow, sink, nwrites, mutex,
                   TL_BUF, clock, tlEntry>>

\* Lines 231-239: the envelope pass into its own buffer.
Pass1(t) ==
    /\ pc[t] = "pass1"
    /\ LET st == log_placeholder_impl(drain.values, drain.pretty, rec[t].level,
                                      clock, NewSer(TL_BUF[t], evals[t]))
       IN  /\ TL_BUF' = [TL_BUF EXCEPT ![t] = st.buf]
           /\ evals' = [evals EXCEPT ![t] = st.evals]
           /\ tlEntry' = [tlEntry EXCEPT ![t] = @ /\ st.clean]
           /\ clock' = clock + (st.evals["Timestamp"] - evals[t]["Timestamp"])
           /\ IF st.ok
              THEN /\ payload' = [payload EXCEPT ![t] = st.out]
                   /\ pc' = [pc EXCEPT ![t] = "pass2"]
                   /\ UNCHANGED <<res, mutex, ioBorrow, sink, nwrites>>
              ELSE /\ ReturnEarly(t, "encode")
                   /\ UNCHANGED payload
    /\ UNCHANGED <<builderVars, setupVars, rec, fields, calls, sinkAtEntry, wr, ev>>

\* A faulty fields pass that has streamed the envelope to the sink by the time
\* an entry fails.
Pass2_partial(t) ==
    /\ pc[t] = "pass2"
    /\ LET st == log_fields_impl(drain.pretty, rec[t], clock,
                                 NewSer(TL_BUF[t], evals[t]))
       IN  /\ TL_BUF' = [TL_BUF EXCEPT ![t] = st.buf]
           /\ evals' = [evals EXCEPT ![t] = st.evals]
           /\ tlEntry' = [tlEntry EXCEPT ![t] = @ /\ st.clean]
           /\ clock' = clock + (st.evals["Timestamp"] - evals[t]["Timestamp"])
           /\ IF st.ok
              THEN /\ fields' = [fields EXCEPT ![t] = st.out]
                   /\ pc' = [pc EXCEPT ![t] = "splice"]
                   /\ UNCHANGED <<res, mutex, ioBorrow, sink, nwrites>>
              ELSE /\ pc' = [pc EXCEPT ![t] = "idle"]
                   /\ res' = [res EXCEPT ![t] = "encode"]
                   /\ sink' = Append(sink, Chunk(ev[t], payload[t]))
                   /\ UNCHANGED <<fields, mutex, ioBorrow, nwrites>>
    /\ UNCHANGED <<builderVars, setupVars, rec, payload, calls, sinkAtEntry, wr, ev>>

\* Lines 241-250: the fields pass into a second buffer.
Pass2(t) ==
    /\ pc[t] = "pass2"
    /\ LET st == log_fields_impl(drain.pretty, rec[t], clock,
                                 NewSer(TL_BUF[t], evals[t]))
       IN  /\ TL_BUF' = [TL_BUF EXCEPT ![t] = st.buf]
           /\ evals' = [evals EXCEPT ![t] = st.evals]
           /\ tlEntry' = [tlEntry EXCEPT ![t] = @ /\ st.clean]
           /\ clock' = clock + (st.evals["Timestamp"] - evals[t]["Timestamp"])
           /\ IF st.ok
              THEN /\ fields' = [fields EXCEPT ![t] = st.out]
                   /\ pc' = [pc EXCEPT ![t] = "splice"]
                   /\ UNCHANGED <<res, mutex, ioBorrow, sink, nwrites>>
              ELSE /\ ReturnEarly(t, "encode")
                   /\ UNCHANGED fields
    /\ UNCHANGED <<builderVars, setupVars, rec, payload, calls, sinkAtEntry, wr, ev>>

\* Lines 252-255: the placeholder is replaced and a brace is pushed.
Splice(t) ==
    /\ pc[t] = "splice"
    /\ payload' = [payload EXCEPT ![t] = SplicePayload(payload[t], fields[t])]
    /\ pc' = [pc EXCEPT ![t] = "borrow"]
    /\ UNCHANGED <<builderVars, setupVars, ioBorrow, sink, nwrites, mutex, rec,
                   fields, res, TL_BUF, evals, clock, calls, sinkAtEntry, wr, ev,
                   tlEntry>>

\* self.io.borrow_mut(), first half: RefCell reads its flag and panics with
\* "already borrowed" unless it is unused. The flag is a plain Cell: the read
\* and the write below are two steps to any other thread.
BorrowCheck(t) ==
    /\ pc[t] = "borrow"
    /\ IF ioBorrow = 0
       THEN /\ pc' = [pc EXCEPT ![t] = "borrowing"]
            /\ UNCHANGED <<res, mutex>>
       ELSE /\ pc' = [pc EXCEPT ![t] = "idle"]
            /\ res' = [res EXCEPT ![t] = "panic"]
            /\ mutex' = IF mutex = t THEN 0 ELSE mutex
    /\ UNCHANGED <<builderVars, setupVars, ioBorrow, sink, nwrites, clock, calls,
                   threadLocals>>

\* borrow_mut, second half: the flag is set to "mutably borrowed".
BorrowSet(t) ==
    /\ pc[t] = "borrowing"
    /\ ioBorrow' = -1
    /\ pc' = [pc EXCEPT ![t] = "write"]
    /\ UNCHANGED <<builderVars, setupVars, sink, nwrites, mutex, res, clock,
                   calls, threadLocals>>

\* A faulty payload write that drops the error and goes on to the newline.
WritePayload_noabort(t) ==
    /\ pc[t] = "write"
    /\ nwrites' = nwrites + 1
    /\ wr' = [wr EXCEPT ![t] = @ + 1]
    /\ sink' = IF nwrites + 1 = failAt THEN sink
               ELSE Append(sink, Chunk(ev[t], payload[t]))
    /\ IF drain.newlines
       THEN /\ pc' = [pc EXCEPT ![t] = "newline"]
            /\ UNCHANGED <<res, ioBorrow, mutex>>
       ELSE ReturnDrop(t, "ok")
    /\ UNCHANGED <<builderVars, setupVars, rec, payload, fields, TL_BUF, evals,
                   clock, calls, sinkAtEntry, ev, tlEntry>>

\* io.write_all(payload.as_bytes())?
WritePayload(t) ==
    /\ pc[t] = "write"
    /\ nwrites' = nwrites + 1
    /\ wr' = [wr EXCEPT ![t] = @ + 1]
    /\ IF nwrites + 1 = failAt
       THEN /\ \E n \in PartialWrites :
                 sink' = IF n = 0 THEN sink
                         ELSE Append(sink, Chunk(ev[t], SubSeq(payload[t], 1, n)))
            /\ ReturnDrop(t, "io")
       ELSE /\ sink' = Append(sink, Chunk(ev[t], payload[t]))
            /\ IF drain.newlines
               THEN /\ pc' = [pc EXCEPT ![t] = "newline"]
                    /\ UNCHANGED <<res, ioBorrow, mutex>>
               ELSE ReturnDrop(t, "ok")
    /\ UNCHANGED <<builderVars, setupVars, rec, payload, fields, TL_BUF, evals,
                   clock, calls, sinkAtEntry, ev, tlEntry>>

\* if self.newlines { io.write_all(b"\n")?; } Ok(())
WriteNewline(t) ==
    /\ pc[t] = "newline"
    /\ nwrites' = nwrites + 1
    /\ wr' = [wr EXCEPT ![t] = @ + 1]
    /\ IF nwrites + 1 = failAt
       THEN /\ sink' = sink
            /\ ReturnDrop(t, "io")
       ELSE /\ sink' = Append(sink, Chunk(ev[t], <<NL>>))
            /\ ReturnDrop(t, "ok")
    /\ UNCHANGED <<builderVars, setupVars, rec, payload, fields, TL_BUF, evals,
                   clock, calls, sinkAtEntry, ev, tlEntry>>

Next ==
    \/ \E t \in threads : \E r \in MainRecords : Begin(t, r)
    \/ \E t \in threads : Pass1(t)
    \/ \E t \in threads : Pass2(t)
    \/ \E t \in threads : Splice(t)
    \/ \E t \in threads : BorrowCheck(t)
    \/ \E t \in threads : BorrowSet(t)
    \/ \E t \in threads : WritePayload(t)
    \/ \E t \in threads : WriteNewline(t)

Spec == Init /\ [][Next]_vars

\* ------------------------------------------------- MozLogJsonBuilder's API

logVars ==
    <<ioBorrow, sink, nwrites, mutex, pc, rec, payload, fields, res, TL_BUF,
      evals, clock, calls, sinkAtEntry, wr, ev, tlEntry>>

\* MozLogJson::new(io): the builder reads MOZLOG_GCP.
new ==
    /\ phase = "unborn"
    /\ phase' = "builder"
    /\ builder' = NewBuilder(env)
    /\ UNCHANGED <<env, gcpCalled, drain, setupVars, logVars>>

enable_gcp ==
    /\ phase = "builder"
    /\ builder' = [builder EXCEPT !.gcp = TRUE]
    /\ gcpCalled' = TRUE
    /\ UNCHANGED <<phase, env, drain, setupVars, logVars>>

set_newlines(enabled) ==
    /\ phase = "builder"
    /\ builder' = [builder EXCEPT !.newlines = enabled]
    /\ UNCHANGED <<phase, env, gcpCalled, drain, setupVars, logVars>>

set_pretty(enabled) ==
    /\ phase = "builder"
    /\ builder' = [builder EXCEPT !.pretty = enabled]
    /\ UNCHANGED <<phase, env, gcpCalled, drain, setupVars, logVars>>

add_key_value(value) ==
    /\ phase = "builder"
    /\ Len(builder.values) < MaxCustom
    /\ builder' = [builder EXCEPT !.values = Append(@, value)]
    /\ UNCHANGED <<phase, env, gcpCalled, drain, setupVars, logVars>>

logger_name(name) ==
    /\ phase = "builder"
    /\ builder' = [builder EXCEPT !.logger_name = Some(name)]
    /\ UNCHANGED <<phase, env, gcpCalled, drain, setupVars, logVars>>

msg_type(name) ==
    /\ phase = "builder"
    /\ builder' = [builder EXCEPT !.msg_type = Some(name)]
    /\ UNCHANGED <<phase, env, gcpCalled, drain, setupVars, logVars>>

hostname(name) ==
    /\ phase = "builder"
    /\ builder' = [builder EXCEPT !.hostname = Some(name)]
    /\ UNCHANGED <<phase, env, gcpCalled, drain, setupVars, logVars>>

\* build() consumes the builder.
build ==
    /\ phase = "builder"
    /\ phase' = "built"
    /\ drain' = BuildDrain(builder)
    /\ UNCHANGED <<env, builder, gcpCalled, setupVars, logVars>>

\* ----------------------------------------------------------- specifications

\* A builder used through its whole API, then one thread logging.
InitBuild ==
    /\ phase = "unborn"
    /\ env = "unset"
    /\ builder = NewBuilder("unset")
    /\ gcpCalled = FALSE
    /\ drain = NoDrain
    /\ failAt = 0
    /\ wrapped = FALSE
    /\ threads = {1}
    /\ ThreadInit

NextBuild ==
    \/ new
    \/ enable_gcp
    \/ \E b \in BOOLEAN : set_newlines(b)
    \/ \E b \in BOOLEAN : set_pretty(b)
    \/ \E g \in CustomGroups : add_key_value(g)
    \/ logger_name(N_svc)
    \/ msg_type(N_type)
    \/ hostname(N_host)
    \/ build
    \/ \E t \in threads : \E r \in BuildRecords : Begin(t, r)
    \/ \E t \in threads : Pass1(t)
    \/ \E t \in threads : Pass2(t)
    \/ \E t \in threads : Splice(t)
    \/ \E t \in threads : BorrowCheck(t)
    \/ \E t \in threads : BorrowSet(t)
    \/ \E t \in threads : WritePayload(t)
    \/ \E t \in threads : WriteNewline(t)

SpecBuild == InitBuild /\ [][NextBuild]_vars

\* Every setting of MOZLOG_GCP, with or without enable_gcp, and every level.
InitSev ==
    /\ phase = "unborn"
    /\ env \in EnvValues
    /\ builder = NewBuilder("unset")
    /\ gcpCalled = FALSE
    /\ drain = NoDrain
    /\ failAt = 0
    /\ wrapped = FALSE
    /\ threads = {1}
    /\ ThreadInit

NextSev ==
    \/ new
    \/ enable_gcp
    \/ \E b \in BOOLEAN : set_pretty(b)
    \/ build
    \/ \E t \in threads : \E r \in LevelRecords : Begin(t, r)
    \/ \E t \in threads : Pass1(t)
    \/ \E t \in threads : Pass2(t)
    \/ \E t \in threads : Splice(t)
    \/ \E t \in threads : BorrowCheck(t)
    \/ \E t \in threads : BorrowSet(t)
    \/ \E t \in threads : WritePayload(t)
    \/ \E t \in threads : WriteNewline(t)

SpecSev == InitSev /\ [][NextSev]_vars

\* Encoders one of whose static attributes has the sentinel's text as value.
SpliceBuilders ==
    {[NewBuilder("unset") EXCEPT !.pretty = p, !.logger_name = Some(n),
                                 !.hostname = Some(h)] :
        p \in BOOLEAN, n \in {N_svc, PLACEHOLDER}, h \in {N_host, PLACEHOLDER}}

InitSplice ==
    /\ InitBuilt(SpliceBuilders)
    /\ failAt = 0
    /\ wrapped = FALSE
    /\ threads = {1}

SpecSplice == InitSplice /\ [][Next]_vars

\* Two threads logging through one encoder: shared as Mutex<MozLogJson>, as the
\* crate docs show, or shared with nothing around it, when the RefCell of
\* drain.io, which is no lock, is all that stands between two calls.
InitShared ==
    /\ InitBuilt({NewBuilder("unset")})
    /\ failAt = 0
    /\ wrapped \in BOOLEAN
    /\ threads = Threads

NextShared ==
    \/ \E t \in threads : MutexLock(t)
    \/ \E t \in threads : \E r \in SharedRecords : Begin(t, r)
    \/ \E t \in threads : Pass1(t)
    \/ \E t \in threads : Pass2(t)
    \/ \E t \in threads : Splice(t)
    \/ \E t \in threads : BorrowCheck(t)
    \/ \E t \in threads : BorrowSet(t)
    \/ \E t \in threads : WritePayload(t)
    \/ \E t \in threads : WriteNewline(t)

SpecShared == InitShared /\ [][NextShared]_vars

\* ------------------------------------------------------ reading JSON back
\* A reader of JSON text, used to state what the written bytes mean. A parsed
\* value is <<"s", chars>>, <<"n", number>> or <<"o", entries>>, the entries a
\* sequence of <<key, value>> in the order of the text, duplicates kept.

Digits == {"0", "1", "2", "3", "4", "5", "6", "7", "8", "9"}

DigitVal(c) == CHOOSE d \in 0..9 : Digit(d) = c

ParseFail == [ok |-> FALSE, v |-> <<"x", <<>>>>, n |-> 0]

ParseOk(v, n) == [ok |-> TRUE, v |-> v, n |-> n]

RECURSIVE SkipWs(_, _)
SkipWs(s, i) == IF i <= Len(s) /\ s[i] \in {SP, NL} THEN SkipWs(s, i + 1) ELSE i

RECURSIVE ParseStrBody(_, _, _)
\* From inside a string literal to its closing quote.
ParseStrBody(s, i, acc) ==
    IF i > Len(s) \/ s[i] = NL THEN ParseFail
    ELSE IF s[i] = QUOTE THEN ParseOk(<<"s", acc>>, i + 1)
    ELSE IF s[i] = BSLASH
         THEN IF i + 1 > Len(s) THEN ParseFail
              ELSE IF s[i + 1] \in {QUOTE, BSLASH}
                   THEN ParseStrBody(s, i + 2, Append(acc, s[i + 1]))
              ELSE IF s[i + 1] = "n" THEN ParseStrBody(s, i + 2, Append(acc, NL))
              ELSE ParseFail
    ELSE ParseStrBody(s, i + 1, Append(acc, s[i]))

RECURSIVE ParseNumBody(_, _, _)
ParseNumBody(s, i, acc) ==
    IF i <= Len(s) /\ s[i] \in Digits
    THEN ParseNumBody(s, i + 1, 10 * acc + DigitVal(s[i]))
    ELSE ParseOk(<<"n", acc>>, i)

RECURSIVE ParseValue(_, _)
RECURSIVE ParseMembers(_, _, _)

ParseValue(s, i0) ==
    LET i == SkipWs(s, i0)
    IN  IF i > Len(s) THEN ParseFail
        ELSE IF s[i] = QUOTE THEN ParseStrBody(s, i + 1, <<>>)
        ELSE IF s[i] \in Digits
             THEN IF s[i] = "0" /\ i < Len(s) /\ s[i + 1] \in Digits THEN ParseFail
                  ELSE ParseNumBody(s, i, 0)
        ELSE IF s[i] = "{"
             THEN LET j == SkipWs(s, i + 1)
                  IN  IF j <= Len(s) /\ s[j] = "}" THEN ParseOk(<<"o", <<>>>>, j + 1)
                      ELSE ParseMembers(s, j, <<>>)
        ELSE ParseFail

\* key : value, then a comma and more members, or the closing brace.
ParseMembers(s, i0, acc) ==
    LET i == SkipWs(s, i0)
    IN  IF i > Len(s) \/ s[i] # QUOTE THEN ParseFail
        ELSE LET k == ParseStrBody(s, i + 1, <<>>)
             IN  IF ~k.ok THEN ParseFail
                 ELSE LET c == SkipWs(s, k.n)
                      IN  IF c > Len(s) \/ s[c] # ":" THEN ParseFail
                          ELSE LET v == ParseValue(s, c + 1)
                               IN  IF ~v.ok THEN ParseFail
                                   ELSE LET e == SkipWs(s, v.n)
                                            acc2 == Append(acc, <<k.v[2], v.v>>)
                                        IN  IF e > Len(s) THEN ParseFail
                                            ELSE IF s[e] = ","
                                                 THEN ParseMembers(s, e + 1, acc2)
                                            ELSE IF s[e] = "}"
                                                 THEN ParseOk(<<"o", acc2>>, e + 1)
                                            ELSE ParseFail

\* The whole text is one JSON object.
ParseDoc(s) ==
    LET r == ParseValue(s, 1)
    IN  IF r.ok /\ r.v[1] = "o" /\ SkipWs(s, r.n) = Len(s) + 1 THEN r ELSE ParseFail

Keys(entries) == [i \in 1..Len(entries) |-> entries[i][1]]

RECURSIVE Lookup(_, _)
\* The values an object's entries give a key, in order.
Lookup(entries, k) ==
    IF entries = <<>> THEN <<>>
    ELSE (IF entries[1][1] = k THEN <<entries[1][2]>> ELSE <<>>)
           \o Lookup(Tail(entries), k)

RECURSIVE Flatten(_)
Flatten(groups) == IF groups = <<>> THEN <<>> ELSE Head(groups) \o Flatten(Tail(groups))

\* What a pair of a fields source reads back as.
ReadBack(p) ==
    <<p.k, IF p.v[1] = "num" THEN <<"n", p.v[2]>> ELSE <<"s", p.v[2]>>>>

ReadBackAll(ps) == [i \in 1..Len(ps) |-> ReadBack(ps[i])]

Range(f) == {f[i] : i \in DOMAIN f}

\* A log call of thread t has returned with `result`.
Returned(t, result) == pc[t] = "idle" /\ res[t] = result

\* The writes the sink received since thread t's current call began.
NewChunks(t) == SubSeq(sink, Len(sinkAtEntry[t]) + 1, Len(sink))

\* The event thread t wrote, without its newline: the bytes of its first write.
EventText(t) == NewChunks(t)[1].bytes

\* ------------------------------------------------------------------ claims

\* GCP mode as the builder's user set it.
GcpMode == env = "true" \/ gcpCalled

SeverityKey == IF GcpMode THEN K_severity ELSE K_Severity

PairKeys(ps) == [i \in 1..Len(ps) |-> ps[i].k]

OptKey(opt, key) == IF opt = None THEN <<>> ELSE <<key>>

\* The pairs of the fields sources of thread t's call, as attached and called.
SourcePairs(t) == Flatten(rec[t].lv) \o rec[t].kv

CallHasErr(t) ==
    \E p \in Range(Flatten(drain.values) \o SourcePairs(t)) : p.v[1] = "err"

NArgs(t) == Cardinality({i \in DOMAIN SourcePairs(t) : SourcePairs(t)[i].v[1] = "args"})

\* The entries of the Fields object of a parsed envelope, <<>> without one.
FieldsOf(d) ==
    LET fs == Lookup(d.v[2], K_Fields)
    IN  IF Len(fs) = 1 /\ fs[1][1] = "o" THEN fs[1][2] ELSE <<>>

MsgEntry(t) == <<K_msg, <<"s", rec[t].msg>>>>

\* C1: every successful log call writes one valid JSON object whose top-level
\* keys are exactly the configured static fields plus Timestamp, Pid,
\* Severity-or-severity and Fields, and whose Fields is an object holding msg
\* and the logger-context and call-site pairs.
C1_ValidEnvelope ==
    \A t \in threads :
        Returned(t, "ok") =>
            LET d == ParseDoc(EventText(t))
                fs == Lookup(d.v[2], K_Fields)
            IN  /\ d.ok
                /\ Range(Keys(d.v[2])) =
                       Range(PairKeys(Flatten(builder.values)))
                         \union Range(OptKey(builder.logger_name, K_Logger))
                         \union Range(OptKey(builder.msg_type, K_Type))
                         \union Range(OptKey(builder.hostname, K_Hostname))
                         \union {K_Timestamp, K_Pid, SeverityKey, K_Fields}
                /\ Len(fs) = 1
                /\ fs[1][1] = "o"
                /\ Len(fs[1][2]) = 1 + Len(SourcePairs(t))
                /\ Range(fs[1][2]) =
                       {MsgEntry(t)} \union Range(ReadBackAll(SourcePairs(t)))

\* C2 (theorem): when an entry fails in pass 1 or pass 2 the call returns the
\* encode error, and until it has returned so the sink holds exactly what it
\* held when the call began: no write_all was made.
C2_NoPartialOutput ==
    \A t \in threads :
        /\ (pc[t] \in {"pass1", "pass2"} \/ Returned(t, "encode")) =>
               (sink = sinkAtEntry[t] /\ wr[t] = 0)
        /\ (pc[t] = "idle" /\ res[t] \in {"ok", "io", "encode"} /\ CallHasErr(t)) =>
               res[t] = "encode"
        /\ Returned(t, "encode") => CallHasErr(t)

\* C2 (witness): pass 2 failed after pass 1 had built its payload, on an encoder
\* whose sink already held an earlier event.
C2_Witness ==
    \E t \in threads :
        Returned(t, "encode") /\ payload[t] # <<>> /\ sink # <<>>

\* C3 (original): Fields holds msg, then the logger-context pairs in attachment
\* order, then the call-site pairs in call order.
C3_AttachmentOrder ==
    \A t \in threads :
        Returned(t, "ok") =>
            LET d == ParseDoc(EventText(t))
            IN  d.ok /\ FieldsOf(d) = <<MsgEntry(t)>> \o ReadBackAll(SourcePairs(t))

\* C3 (theorem, amended): Fields holds N+1 entries, msg first, then the
\* logger-context pairs from the pair attached last back to the pair attached
\* first, then the call-site pairs from the last of the call back to the first;
\* a key that occurs more than once is written once per occurrence.
C3_FieldsReversed ==
    \A t \in threads :
        Returned(t, "ok") =>
            LET d == ParseDoc(EventText(t))
            IN  /\ d.ok
                /\ Len(FieldsOf(d)) = 1 + Len(SourcePairs(t))
                /\ FieldsOf(d) =
                       <<MsgEntry(t)>>
                         \o ReadBackAll(Reverse(Flatten(rec[t].lv)))
                         \o ReadBackAll(Reverse(rec[t].kv))

\* C3 (witness): a written event whose logger has two groups and whose call has
\* two pairs, one key occurring in both sources.
C3_Witness ==
    \E t \in threads :
        /\ Returned(t, "ok")
        /\ Len(rec[t].lv) = 2
        /\ Len(rec[t].kv) = 2
        /\ \E p \in Range(Flatten(rec[t].lv)) : \E q \in Range(rec[t].kv) : p.k = q.k

\* C7 (theorem): a failing write_all ends the call with the I/O error; it is the
\* last write the sink sees for that event (no newline after a failed payload,
\* no retry), the RefMut is released, and a later call writes its whole event.
C7_IoErrorStops ==
    \A t \in threads :
        /\ Returned(t, "io") =>
               /\ nwrites = failAt
               /\ wr[t] \in {1, 2}
               /\ wr[t] = 1 =>
                      \/ NewChunks(t) = <<>>
                      \/ \E n \in 1..Len(payload[t]) :
                             NewChunks(t) = <<Chunk(ev[t], SubSeq(payload[t], 1, n))>>
               /\ wr[t] = 2 => NewChunks(t) = <<Chunk(ev[t], payload[t])>>
        /\ pc[t] = "newline" => (nwrites # failAt /\ wr[t] = 1)
        /\ Returned(t, "ok") =>
               /\ NewChunks(t) =
                      <<Chunk(ev[t], payload[t])>>
                        \o (IF drain.newlines THEN <<Chunk(ev[t], <<NL>>)>> ELSE <<>>)
               /\ ~(nwrites - wr[t] < failAt /\ failAt <= nwrites)
        /\ pc[t] \in {"idle", "pass1", "pass2", "splice", "borrow"} => ioBorrow = 0
        /\ res[t] # "panic"

\* C7 (witness): the first call's payload write failed part-way, and the second
\* call has written its event after the fragment.
C7_Witness ==
    \E t \in threads :
        /\ Returned(t, "ok")
        /\ ev[t] = 2
        /\ failAt = 1
        /\ Len(sinkAtEntry[t]) = 1
        /\ Len(sink) > 1

ExpectedEvals(t) ==
    [n \in EvalNames |-> IF n = "args" THEN NArgs(t) ELSE 1]

BothPassesDone(t) ==
    \/ pc[t] \in {"splice", "borrow", "borrowing", "write", "newline"}
    \/ Returned(t, "ok")
    \/ Returned(t, "io")

\* C8 (original): every lazy or formatted value is evaluated exactly once in
\* every log call.
C8_ExactlyOnceEveryCall ==
    \A t \in threads :
        (pc[t] = "idle" /\ res[t] \in {"ok", "io", "encode"}) =>
            evals[t] = ExpectedEvals(t)

\* C8 (theorem, amended): every lazy or formatted value is evaluated at most
\* once in a log call, and exactly once in every call whose two passes complete,
\* whether the sink write then succeeds or fails; TL_BUF is empty whenever
\* emit_arguments is entered and between the steps of log; and a formatted
\* attribute is written with its own rendering only.
C8_OncePerCompletedCall ==
    \A t \in threads :
        /\ TL_BUF[t] = <<>>
        /\ tlEntry[t]
        /\ \A n \in EvalNames : evals[t][n] <= ExpectedEvals(t)[n]
        /\ BothPassesDone(t) => evals[t] = ExpectedEvals(t)
        /\ Returned(t, "ok") =>
               \A p \in Range(SourcePairs(t)) :
                   p.v[1] = "args" =>
                       Range(Lookup(FieldsOf(ParseDoc(EventText(t))), p.k)) =
                           {ReadBack(q)[2] : q \in {x \in Range(SourcePairs(t)) : x.k = p.k}}

\* C8 (witness): a second call with two formatted attributes whose passes
\* completed and whose sink write failed.
C8_Witness ==
    \E t \in threads :
        Returned(t, "io") /\ ev[t] = 2 /\ evals[t]["args"] = 2

\* C9: the splice replaces the value of Fields and nothing else: every static
\* string attribute is written unchanged, one whose value is the sentinel's
\* text included, and such text inside the fields stays as it is.
C9_SingleSubstitution ==
    \A t \in threads :
        Returned(t, "ok") =>
            LET d == ParseDoc(EventText(t))
            IN  /\ d.ok
                /\ \A p \in Range(Flatten(drain.values)) :
                       p.v[1] = "str" => Lookup(d.v[2], p.k) = <<<<"s", p.v[2]>>>>
                /\ \A p \in Range(SourcePairs(t)) :
                       p.v[1] = "str" => ReadBack(p)[2] \in Range(Lookup(FieldsOf(d), p.k))

\* C10: the buffer of pass 2 is by itself a complete JSON object before the
\* splice uses it.
C10_FieldsBufferComplete ==
    \A t \in threads : pc[t] = "splice" => ParseDoc(fields[t]).ok

IsNamedKey(k) ==
    k \in {K_Logger, K_Type, K_Hostname, K_Timestamp, K_Pid, K_Severity, K_severity}

OptionalKeys ==
    OptKey(builder.logger_name, K_Logger)
      \o OptKey(builder.msg_type, K_Type)
      \o OptKey(builder.hostname, K_Hostname)

C5_SeverityEntry ==
    \A t \in threads :
        Returned(t, "ok") =>
            LET d == ParseDoc(EventText(t))
                gcp == [Critical |-> 600, Error |-> 500, Warning |-> 400,
                        Info |-> 200, Debug |-> 100, Trace |-> 100]
                moz == [Critical |-> 2, Error |-> 3, Warning |-> 4,
                        Info |-> 6, Debug |-> 7, Trace |-> 7]
            IN  /\ d.ok
                /\ IF GcpMode
                   THEN /\ Lookup(d.v[2], K_severity) = <<<<"n", gcp[rec[t].level]>>>>
                        /\ Lookup(d.v[2], K_Severity) = <<>>
                   ELSE /\ Lookup(d.v[2], K_Severity) = <<<<"n", moz[rec[t].level]>>>>
                        /\ Lookup(d.v[2], K_severity) = <<>>

\* C5 (witness): an Info record written in GCP mode that comes from the
\* environment alone, after a Trace record.
C5_Witness ==
    \E t \in threads :
        /\ Returned(t, "ok")
        /\ rec[t].level = "Info"
        /\ ev[t] = 2
        /\ env = "true"
        /\ ~gcpCalled

Writing(t) == pc[t] \in {"write", "newline"}

InLog(t) == pc[t] \notin {"idle", "locked"}

\* The writes of one event are adjacent in the sink.
Contiguous ==
    \A i \in 1..Len(sink) : \A k \in i..Len(sink) :
        sink[i].ev = sink[k].ev => \A j \in i..k : sink[j].ev = sink[i].ev

====
